---- MODULE Spec2Model ----
(***************************************************************************)
(* json-masker (github.com/AndrewHany/json-masker): Mask decodes a JSON    *)
(* text, walks the decoded tree with maskWithPaths, replaces every node    *)
(* whose index-collapsed path is a key of maskPaths by the mask function's *)
(* string, and encodes the tree again.                                     *)
(*                                                                         *)
(* Go strings are modelled as sequences of one-character strings, so that  *)
(* path concatenation and the regular expression \[\d+\] work on the       *)
(* characters as they do in the program.                                   *)
(***************************************************************************)
EXTENDS Integers, Sequences, FiniteSets, TLC

(***************************************************************************)
(* Bounds of the model.                                                    *)
(***************************************************************************)
\* largest number of nodes (containers and leaves) of an input document
MaxNodes == 3
\* largest number of paths in the maskPaths argument of one call
MaxRules == 2

(***************************************************************************)
(* Characters and strings.                                                 *)
(***************************************************************************)
Digits == {"0", "1", "2", "3", "4", "5", "6", "7", "8", "9"}

\* strconv-style decimal text of a non-negative int (the %d verb)
RECURSIVE Itoa(_)
Itoa(n) ==
    LET d == <<"0", "1", "2", "3", "4", "5", "6", "7", "8", "9">>[(n % 10) + 1]
    IN  IF n < 10 THEN <<d>> ELSE Itoa(n \div 10) \o <<d>>

\* byte value of the characters that occur in object keys (ASCII)
ByteOf(c) ==
    CASE c = "." -> 46
      [] c = "3" -> 51
      [] c = "[" -> 91
      [] c = "]" -> 93
      [] c = "a" -> 97
      [] OTHER -> 0

\* Go string comparison s < t: bytewise lexicographic
RECURSIVE StrLess(_, _)
StrLess(s, t) ==
    IF t = <<>> THEN FALSE
    ELSE IF s = <<>> THEN TRUE
    ELSE IF ByteOf(Head(s)) # ByteOf(Head(t)) THEN ByteOf(Head(s)) < ByteOf(Head(t))
    ELSE StrLess(Tail(s), Tail(t))

(***************************************************************************)
(* removeIndexRegex = \[\d+\] and removeIndexRegex.ReplaceAllString(p,"[]")*)
(***************************************************************************)
\* first position at or after i that does not hold a digit
RECURSIVE DigitsEnd(_, _)
DigitsEnd(s, i) ==
    IF i <= Len(s) /\ s[i] \in Digits THEN DigitsEnd(s, i + 1) ELSE i

\* the pattern matches at position i of s (then it ends at DigitsEnd(s, i + 1))
removeIndexRegex(s, i) ==
    /\ s[i] = "["
    /\ DigitsEnd(s, i + 1) > i + 1
    /\ DigitsEnd(s, i + 1) <= Len(s)
    /\ s[DigitsEnd(s, i + 1)] = "]"

\* every non-overlapping match, left to right, replaced by "[]"
RECURSIVE ReplaceAllFrom(_, _)
ReplaceAllFrom(s, i) ==
    IF i > Len(s) THEN <<>>
    ELSE IF removeIndexRegex(s, i)
         THEN <<"[", "]">> \o ReplaceAllFrom(s, DigitsEnd(s, i + 1) + 1)
         ELSE <<s[i]>> \o ReplaceAllFrom(s, i + 1)

ReplaceAllString(path) == ReplaceAllFrom(path, 1)

\* isMaskedPath without the index collapse: the path itself is looked up
isMaskedPathExact(path, maskPaths) == path \in maskPaths

\* isMaskedPath: the collapsed path is a key of the maskPaths map
isMaskedPath(path, maskPaths) == ReplaceAllString(path) \in maskPaths

(***************************************************************************)
(* Decoded values: what json.Unmarshal stores in an interface{} (nil,      *)
(* float64, string, []interface{}, map[string]interface{}), the string a   *)
(* mask function returns, and the reflect.Value struct that maskWithPaths  *)
(* returns for an invalid input.                                           *)
(***************************************************************************)
Nil == [k |-> "nil"]
Num(s) == [k |-> "num", s |-> s]
Str(s) == [k |-> "str", s |-> s]
Slice(e) == [k |-> "slice", e |-> e]
Map(f) == [k |-> "map", f |-> f]
ReflectValue == [k |-> "reflect.Value"]

Range(s) == {s[i] : i \in DOMAIN s}

RECURSIVE NodeCount(_)
RECURSIVE SumCount(_, _)
SumCount(f, D) ==
    IF D = {} THEN 0
    ELSE LET x == CHOOSE y \in D : TRUE
         IN  NodeCount(f[x]) + SumCount(f, D \ {x})
NodeCount(v) ==
    CASE v.k = "slice" -> 1 + SumCount(v.e, DOMAIN v.e)
      [] v.k = "map" -> 1 + SumCount(v.f, DOMAIN v.f)
      [] OTHER -> 1

(***************************************************************************)
(* Input documents: every value with at most MaxNodes nodes over Leaves    *)
(* and Keys.  Keys holds a plain name and two names whose text contains    *)
(* the path separators: "a.a" and "a[3]".                                  *)
(***************************************************************************)
Leaves == {Nil, Num(<<"1">>)}
Keys == {<<"a">>, <<"a", ".", "a">>, <<"a", "[", "3", "]">>}

\* the keys of D in the order sort.Strings gives them
RECURSIVE SortedKeys(_)
SortedKeys(D) ==
    IF D = {} THEN <<>>
    ELSE LET m == CHOOSE x \in D : \A y \in D \ {x} : StrLess(x, y)
         IN  <<m>> \o SortedKeys(D \ {m})

\* the maps whose values, taken in sorted key order, are the sequence e
MapsOver(e) ==
    {Map([key \in K |-> e[CHOOSE i \in 1..Len(e) : SortedKeys(K)[i] = key]]) :
        K \in {K \in SUBSET Keys : Cardinality(K) = Len(e)}}

RECURSIVE DocsUpTo(_)
RECURSIVE Forests(_)
\* sequences of documents with at most m nodes in total
Forests(m) ==
    {<<>>} \cup UNION {{<<d>> \o r : r \in Forests(m - NodeCount(d))} : d \in DocsUpTo(m)}
\* documents with at most n nodes
DocsUpTo(n) ==
    IF n <= 0 THEN {}
    ELSE Leaves \cup {Slice(e) : e \in Forests(n - 1)}
                \cup UNION {MapsOver(e) : e \in Forests(n - 1)}

Docs == DocsUpTo(MaxNodes)

(***************************************************************************)
(* encoding/json.  A JSON text is a sequence of tokens; a token is a       *)
(* punctuation mark, null, a number or a string literal, or a bare word    *)
(* (which no JSON value starts with).                                      *)
(***************************************************************************)
Tok(t) == [t |-> t, s |-> <<>>]
Lit(t, s) == [t |-> t, s |-> s]

\* json.Marshal: map keys are written in sorted order; the reflect.Value struct
\* has no exported field and is written as an empty object
RECURSIVE Marshal(_)
RECURSIVE MarshalElems(_, _)
RECURSIVE MarshalMembers(_, _, _)
MarshalElems(e, i) ==
    IF i > Len(e) THEN <<>>
    ELSE (IF i > 1 THEN <<Tok(",")>> ELSE <<>>) \o Marshal(e[i]) \o MarshalElems(e, i + 1)
MarshalMembers(f, ks, i) ==
    IF i > Len(ks) THEN <<>>
    ELSE (IF i > 1 THEN <<Tok(",")>> ELSE <<>>)
         \o <<Lit("str", ks[i]), Tok(":")>> \o Marshal(f[ks[i]])
         \o MarshalMembers(f, ks, i + 1)
Marshal(v) ==
    CASE v.k = "nil" -> <<Tok("null")>>
      [] v.k = "num" -> <<Lit("num", v.s)>>
      [] v.k = "str" -> <<Lit("str", v.s)>>
      [] v.k = "slice" -> <<Tok("[")>> \o MarshalElems(v.e, 1) \o <<Tok("]")>>
      [] v.k = "map" -> <<Tok("{")>> \o MarshalMembers(v.f, SortedKeys(DOMAIN v.f), 1) \o <<Tok("}")>>
      [] v.k = "reflect.Value" -> <<Tok("{"), Tok("}")>>

\* json.Unmarshal into an interface{}: a recursive-descent parse.  A parse
\* result is [ok, v, n]: success, the value, the position after it.
ParseFail == [ok |-> FALSE, v |-> Nil, n |-> 0]
ParseOk(v, n) == [ok |-> TRUE, v |-> v, n |-> n]
TokAt(text, i) == IF i <= Len(text) THEN text[i].t ELSE "eof"

RECURSIVE ParseValue(_, _)
RECURSIVE ParseElems(_, _, _)
RECURSIVE ParseMembers(_, _, _)
ParseElems(text, i, acc) ==
    LET r == ParseValue(text, i)
    IN  IF ~r.ok THEN ParseFail
        ELSE IF TokAt(text, r.n) = "," THEN ParseElems(text, r.n + 1, Append(acc, r.v))
        ELSE IF TokAt(text, r.n) = "]" THEN ParseOk(Slice(Append(acc, r.v)), r.n + 1)
        ELSE ParseFail
ParseMembers(text, i, f) ==
    IF TokAt(text, i) # "str" \/ TokAt(text, i + 1) # ":" THEN ParseFail
    ELSE LET r == ParseValue(text, i + 2)
             g == [key \in DOMAIN f \cup {text[i].s} |->
                      IF key = text[i].s THEN r.v ELSE f[key]]
         IN  IF ~r.ok THEN ParseFail
             ELSE IF TokAt(text, r.n) = "," THEN ParseMembers(text, r.n + 1, g)
             ELSE IF TokAt(text, r.n) = "}" THEN ParseOk(Map(g), r.n + 1)
             ELSE ParseFail
ParseValue(text, i) ==
    CASE TokAt(text, i) = "null" -> ParseOk(Nil, i + 1)
      [] TokAt(text, i) = "num" -> ParseOk(Num(text[i].s), i + 1)
      [] TokAt(text, i) = "str" -> ParseOk(Str(text[i].s), i + 1)
      [] TokAt(text, i) = "[" ->
            IF TokAt(text, i + 1) = "]" THEN ParseOk(Slice(<<>>), i + 2)
            ELSE ParseElems(text, i + 1, <<>>)
      [] TokAt(text, i) = "{" ->
            IF TokAt(text, i + 1) = "}" THEN ParseOk(Map(<<>>), i + 2)
            ELSE ParseMembers(text, i + 1, <<>>)
      [] OTHER -> ParseFail

\* [err, v]: err is TRUE when the text is not one JSON value
Unmarshal(text) ==
    LET r == ParseValue(text, 1)
    IN  IF r.ok /\ r.n = Len(text) + 1 THEN [err |-> FALSE, v |-> r.v]
        ELSE [err |-> TRUE, v |-> Nil]

(***************************************************************************)
(* The masker and its options.  maskFunc is "nil" when no option set it    *)
(* (NewMasker installs no default), "fixed" after WithFixedMaskString and  *)
(* "custom" after WithMaskFunc with a function of the caller.              *)
(***************************************************************************)
REDACTED == <<"[", "R", "E", "D", "A", "C", "T", "E", "D", "]">>

\* the caller's function of the model: it reports the size of what it hides
CustomMaskFunc(field) == <<"*">> \o Itoa(NodeCount(field))

\* the closure WithFixedMaskString builds
FixedMaskFunc(field) == REDACTED

\* m.maskFunc(field) for a non-nil maskFunc
CallMaskFunc(m, field) ==
    IF m.maskFunc = "fixed" THEN FixedMaskFunc(field) ELSE CustomMaskFunc(field)

\* m.log(line): the line is printed in debug mode only
log(m, msg, s) == IF m.isDebugMode THEN <<[msg |-> msg, s |-> s]>> ELSE <<>>

(***************************************************************************)
(* reflect.Value.  [v, iface, canSet, pos]: the value held, whether the    *)
(* Value has Kind Interface (an element of a []interface{} or of a map),   *)
(* whether it is settable, and the storage it refers to.  The storage is   *)
(* named by its place in the decoded tree: the steps (map key or slice     *)
(* index) from the root to it.                                             *)
(***************************************************************************)
KeyStep(key) == [t |-> "key", key |-> key, idx |-> 0]
IdxStep(i) == [t |-> "idx", key |-> <<>>, idx |-> i]

\* reflect.ValueOf(x): the dynamic value; the zero Value for a nil interface
ValueOf(v) == [v |-> v, iface |-> FALSE, canSet |-> FALSE, pos |-> <<>>]
\* input.Index(i), i counted from 0: slice elements are addressable
Index(input, i) ==
    [v |-> input.v.e[i + 1], iface |-> TRUE, canSet |-> TRUE,
     pos |-> Append(input.pos, IdxStep(i))]
\* input.MapIndex(key): map elements are not addressable
MapIndex(input, key) ==
    [v |-> input.v.f[key], iface |-> TRUE, canSet |-> FALSE,
     pos |-> Append(input.pos, KeyStep(key))]
\* input.Elem() of a non-nil interface Value
Elem(input) == [input EXCEPT !.iface = FALSE, !.canSet = FALSE]
IsValid(input) == input.iface \/ input.v.k # "nil"
Kind(input) ==
    IF input.iface THEN "Interface"
    ELSE CASE input.v.k = "nil" -> "Invalid"
           [] input.v.k = "num" -> "Float64"
           [] input.v.k = "str" -> "String"
           [] input.v.k = "slice" -> "Slice"
           [] input.v.k = "map" -> "Map"
           [] OTHER -> "Struct"
\* input.MapKeys(): all the keys, in an unspecified order
MapKeys(input) ==
    LET D == DOMAIN input.v.f
    IN  {ks \in [1..Cardinality(D) -> D] : Range(ks) = D}

(***************************************************************************)
(* maskWithPaths.  One run of it is an outcome                             *)
(*   [val, self, panic, calls, tested, out]:                               *)
(* the returned value; whether that value is input.Interface(), i.e. the   *)
(* storage of the input as the run left it; whether the run panicked; the  *)
(* mask function's invocations [path, field, pos]; the isMaskedPath tests  *)
(* [path, pos]; and the lines logged.  The operator yields the set of      *)
(* outcomes the runs can have: the order of MapKeys is not determined.     *)
(***************************************************************************)
Outcome(val, self, calls, tested, out) ==
    [val |-> val, self |-> self, panic |-> FALSE, calls |-> calls, tested |-> tested,
     out |-> out]
Panicked(calls, tested, out) ==
    [val |-> Nil, self |-> FALSE, panic |-> TRUE, calls |-> calls, tested |-> tested,
     out |-> out]
\* the run so far (acc) followed by the recursive call's run o
After(acc, o, val) ==
    IF o.panic THEN Panicked(acc.calls \o o.calls, acc.tested \o o.tested, acc.out \o o.out)
    ELSE Outcome(val, TRUE, acc.calls \o o.calls, acc.tested \o o.tested, acc.out \o o.out)

\* fmt.Sprintf("%s[%d]", path, i)
IndexPath(path, i) == path \o <<"[">> \o Itoa(i) \o <<"]">>
\* fmt.Sprintf("%s.%v", path, key)
KeyPath(path, key) == path \o <<".">> \o key

RECURSIVE maskWithPaths(_, _, _, _)
RECURSIVE maskSlice(_, _, _, _, _, _)
RECURSIVE maskMap(_, _, _, _, _, _, _)

\* the slice loop run from the last index down
RECURSIVE maskSliceDescending(_, _, _, _, _, _)
maskSliceDescending(m, input, acc, maskPaths, path, i) ==
    IF acc.panic \/ i >= Len(acc.val.e) THEN {acc}
    ELSE LET cur == [input EXCEPT !.v = acc.val]
             n == Len(acc.val.e) - 1 - i
             here == [acc EXCEPT !.out = @ \o log(m, "Processing index", Itoa(n))]
         IN  UNION {
                 IF ~o.panic /\ o.val = Nil
                 THEN {Panicked(here.calls \o o.calls, here.tested \o o.tested,
                                here.out \o o.out)}
                 ELSE maskSliceDescending(m, input,
                          After(here, o, Slice([acc.val.e EXCEPT ![n + 1] = o.val])),
                          maskPaths, path, i + 1)
                 : o \in maskWithPaths(m, Index(cur, n), maskPaths, IndexPath(path, n))}

\* case reflect.Slice, reflect.Array: the loop from index i (from 0) on; acc.val is
\* the slice as the loop has left it
maskSlice(m, input, acc, maskPaths, path, i) ==
    IF acc.panic \/ i >= Len(acc.val.e) THEN {acc}
    ELSE LET cur == [input EXCEPT !.v = acc.val]
             here == [acc EXCEPT !.out = @ \o log(m, "Processing index", Itoa(i))]
         IN  UNION {
                 IF ~o.panic /\ o.val = Nil
                 THEN \* Index(i).Set(reflect.ValueOf(nil)): Set on the zero Value panics
                      {Panicked(here.calls \o o.calls, here.tested \o o.tested,
                                here.out \o o.out)}
                 ELSE maskSlice(m, input,
                          After(here, o, Slice([acc.val.e EXCEPT ![i + 1] = o.val])),
                          maskPaths, path, i + 1)
                 : o \in maskWithPaths(m, Index(cur, i), maskPaths, IndexPath(path, i))}

\* case reflect.Map: the loop over keys from position j on; acc.val is the map as
\* the loop has left it
maskMap(m, input, acc, maskPaths, path, keys, j) ==
    IF acc.panic \/ j > Len(keys) THEN {acc}
    ELSE LET cur == [input EXCEPT !.v = acc.val]
             key == keys[j]
             here == [acc EXCEPT !.out = @ \o log(m, "Processing key", key)]
             \* SetMapIndex(key, reflect.ValueOf(x)): the zero Value deletes the key
             set(x) == IF x = Nil
                       THEN Map([q \in DOMAIN acc.val.f \ {key} |-> acc.val.f[q]])
                       ELSE Map([acc.val.f EXCEPT ![key] = x])
         IN  UNION {
                 maskMap(m, input, After(here, o, set(o.val)), maskPaths, path, keys, j + 1)
                 : o \in maskWithPaths(m, MapIndex(cur, key), maskPaths, KeyPath(path, key))}

\* The loop that dereferences pointers and the reflect.Struct case are left
\* out: a tree decoded into an interface{} holds neither.
maskWithPaths(m, input, maskPaths, path) ==
    LET l0 == log(m, "Processing path", path)
        test == <<[path |-> path, pos |-> input.pos]>>
        base == Outcome(input.v, TRUE, <<>>, test, l0)
    IN  IF ~IsValid(input)
        THEN \* return reflect.ValueOf(nil), nil: the zero reflect.Value, boxed
             {Outcome(ReflectValue, FALSE, <<>>, <<>>, l0)}
        ELSE IF isMaskedPath(path, maskPaths)
        THEN IF m.maskFunc = "nil"
             THEN \* call of a nil func value
                  {Panicked(<<>>, test, l0 \o log(m, "Masking path", path))}
             ELSE {Outcome(Str(CallMaskFunc(m, input.v)), FALSE,
                           <<[path |-> path, field |-> input.v, pos |-> input.pos]>>,
                           test, l0 \o log(m, "Masking path", path))}
        ELSE CASE Kind(input) = "Slice" -> maskSlice(m, input, base, maskPaths, path, 0)
               [] Kind(input) = "Map" ->
                    UNION {maskMap(m, input, base, maskPaths, path, keys, 1) :
                              keys \in MapKeys(input)}
               [] Kind(input) = "Interface" ->
                    LET here == [base EXCEPT !.out = @ \o log(m, "Processing interface", <<>>)]
                    IN  IF input.v.k = "nil"
                        THEN \* input.IsNil(): return nil, nil
                             {[here EXCEPT !.self = FALSE]}
                        ELSE {After(here, o,
                                    \* input.Set when settable; then input.Interface(),
                                    \* which shares its slice or map with the callee
                                    IF input.canSet \/ o.self THEN o.val ELSE input.v)
                              : o \in maskWithPaths(m, Elem(input), maskPaths, path)}
               [] OTHER -> {[base EXCEPT !.out = @ \o log(m, "No action needed", <<>>)]}

(***************************************************************************)
(* Caller inputs.                                                          *)
(***************************************************************************)
Root == <<"$">>
\* the paths a caller writes: the root, its elements, field a, field a of a,
\* the elements of a, and a path written with a literal index
Rules ==
    {Root, Root \o <<"[", "]">>, Root \o <<".", "a">>, Root \o <<".", "a", ".", "a">>,
     Root \o <<".", "a", "[", "]">>, Root \o <<".", "a", "[", "3", "]">>}
\* the maskPaths argument ([]string), as the set of its elements: Mask reads
\* the slice only to enter each element into a map
RuleSets == {S \in SUBSET Rules : Cardinality(S) <= MaxRules}

One == Num(<<"1">>)
\* texts that are not one JSON value: empty, a bare word, an unfinished object,
\* a dangling comma, two values
BadTexts ==
    {<<>>,
     <<Lit("word", <<"i", "n", "v", "a", "l", "i", "d">>)>>,
     <<Tok("{"), Lit("str", <<"a">>)>>,
     <<Tok("["), Lit("num", <<"1">>), Tok(","), Tok("]")>>,
     <<Lit("num", <<"1">>), Lit("num", <<"1">>)>>}
Texts == {Marshal(d) : d \in Docs} \cup BadTexts

\* the option lists given to NewMasker, as the masker they produce
Maskers ==
    {[maskFunc |-> "nil", isDebugMode |-> FALSE],
     [maskFunc |-> "fixed", isDebugMode |-> FALSE],
     [maskFunc |-> "custom", isDebugMode |-> FALSE],
     [maskFunc |-> "fixed", isDebugMode |-> TRUE]}

\* the calls of the two-goroutine specification
ConcTexts ==
    {Marshal(Map([key \in {<<"a">>, <<"a", ".", "a">>} |-> One])),
     Marshal(Slice(<<One, Nil>>)),
     Marshal(Map([key \in {<<"a">>} |-> Nil])),
     <<Lit("word", <<"i", "n", "v", "a", "l", "i", "d">>)>>}
ConcRuleSets == {{}, {Root \o <<".", "a">>, Root \o <<".", "a", ".", "a">>}, {Root \o <<"[", "]">>}}

(***************************************************************************)
(* State.  One masker, shared by the goroutines that call Mask on it; each *)
(* goroutine has the arguments, locals and result of its call.             *)
(***************************************************************************)
Goroutines == {1, 2}

VARIABLES
    maskFunc,       \* masker.maskFunc
    isDebugMode,    \* masker.isDebugMode
    pc,             \* where each goroutine is in Mask
    input,          \* Mask's argument input
    maskPaths,      \* Mask's argument maskPaths
    maskPathsMap,   \* the local maskPathsMap (its key set)
    inputValue,     \* the local inputValue, the decoded tree
    maskedObject,   \* the local maskedObject
    result,         \* what Mask returned: the string and the error
    calls,          \* the mask function's invocations in the call
    tested,         \* the paths the call gave to isMaskedPath
    stdout          \* the lines the call printed

vars == <<maskFunc, isDebugMode, pc, input, maskPaths, maskPathsMap, inputValue,
          maskedObject, result, calls, tested, stdout>>
masker == <<maskFunc, isDebugMode>>

NoResult == [out |-> <<>>, err |-> "none"]

\* NewMasker(maskPaths, opts...): the options are applied to a zero masker; the
\* maskPaths argument is not used
NewMasker(m) ==
    /\ maskFunc = m.maskFunc
    /\ isDebugMode = m.isDebugMode

Init ==
    /\ \E m \in Maskers : NewMasker(m)
    /\ pc = [g \in Goroutines |-> "idle"]
    /\ input = [g \in Goroutines |-> <<>>]
    /\ maskPaths = [g \in Goroutines |-> {}]
    /\ maskPathsMap = [g \in Goroutines |-> {}]
    /\ inputValue = [g \in Goroutines |-> Nil]
    /\ maskedObject = [g \in Goroutines |-> Nil]
    /\ result = [g \in Goroutines |-> NoResult]
    /\ calls = [g \in Goroutines |-> <<>>]
    /\ tested = [g \in Goroutines |-> <<>>]
    /\ stdout = [g \in Goroutines |-> <<>>]

\* goroutine g calls m.Mask(text, paths), with a text of T and the paths P of PS
Call(g, T, PS) ==
    /\ pc[g] = "idle"
    /\ pc' = [pc EXCEPT ![g] = "decode"]
    /\ \E text \in T : input' = [input EXCEPT ![g] = text]
    /\ \E P \in PS : maskPaths' = [maskPaths EXCEPT ![g] = P]
    /\ UNCHANGED <<masker, maskPathsMap, inputValue, maskedObject, result, calls, tested,
                   stdout>>

\* one map kept for all calls: every call's paths are entered into it
SharedMaskPathsMap(g) == UNION {maskPaths[h] : h \in Goroutines}

\* the map built from maskPaths
MakeMaskPathsMap(g) == {path : path \in maskPaths[g]}

\* Decode without the return on a decode error: Mask goes on with the nil
\* inputValue
DecodeIgnoringError(g) ==
    /\ pc[g] = "decode"
    /\ maskPathsMap' = [maskPathsMap EXCEPT ![g] = maskPaths[g]]
    /\ inputValue' = [inputValue EXCEPT ![g] = Unmarshal(input[g]).v]
    /\ pc' = [pc EXCEPT ![g] = "walk"]
    /\ UNCHANGED <<masker, input, maskPaths, maskedObject, result, calls, tested, stdout>>

\* Mask up to the return on a decode error: maskPathsMap is built, the input
\* is decoded
Decode(g) ==
    /\ pc[g] = "decode"
    /\ maskPathsMap' = [maskPathsMap EXCEPT ![g] = MakeMaskPathsMap(g)]
    /\ LET u == Unmarshal(input[g])
       IN  IF u.err
           THEN /\ result' = [result EXCEPT ![g] =
                                 [out |-> <<>>, err |-> "failed to unmarshal input"]]
                /\ pc' = [pc EXCEPT ![g] = "returned"]
                /\ UNCHANGED inputValue
           ELSE /\ inputValue' = [inputValue EXCEPT ![g] = u.v]
                /\ pc' = [pc EXCEPT ![g] = "walk"]
                /\ UNCHANGED result
    /\ UNCHANGED <<masker, input, maskPaths, maskedObject, calls, tested, stdout>>

\* the runs of m.maskWithPaths(reflect.ValueOf(inputValue), maskPathsMap, "$")
WalkOutcomes(g) ==
    maskWithPaths([maskFunc |-> maskFunc, isDebugMode |-> isDebugMode],
                  ValueOf(inputValue[g]), maskPathsMap[g], Root)

\* the call of maskWithPaths.  It returns no error on any path, so the return
\* "failed to mask object" is never taken.  The walk writes into the decoded
\* tree; a panic unwinds the call and its locals are gone.
Walk(g) ==
    /\ pc[g] = "walk"
    /\ \E o \in WalkOutcomes(g) :
          /\ calls' = [calls EXCEPT ![g] = o.calls]
          /\ tested' = [tested EXCEPT ![g] = o.tested]
          /\ stdout' = [stdout EXCEPT ![g] = o.out]
          /\ IF o.panic
             THEN /\ pc' = [pc EXCEPT ![g] = "panicked"]
                  /\ inputValue' = [inputValue EXCEPT ![g] = Nil]
                  /\ UNCHANGED maskedObject
             ELSE /\ pc' = [pc EXCEPT ![g] = "encode"]
                  /\ inputValue' = [inputValue EXCEPT ![g] = IF o.self THEN o.val ELSE @]
                  /\ maskedObject' = [maskedObject EXCEPT ![g] = o.val]
    /\ UNCHANGED <<masker, input, maskPaths, maskPathsMap, result>>

\* json.Marshal(maskedObject) and the return.  Marshal has no error for a
\* tree of maps, slices, numbers, strings, nil and the reflect.Value struct.
Encode(g) ==
    /\ pc[g] = "encode"
    /\ result' = [result EXCEPT ![g] = [out |-> Marshal(maskedObject[g]), err |-> "nil"]]
    /\ pc' = [pc EXCEPT ![g] = "returned"]
    /\ UNCHANGED <<masker, input, maskPaths, maskPathsMap, inputValue, maskedObject, calls,
                   tested, stdout>>

\* the caller has taken the result (or the panic): nothing of the call is kept
Discard(g) ==
    /\ pc[g] \in {"returned", "panicked"}
    /\ pc' = [pc EXCEPT ![g] = "idle"]
    /\ input' = [input EXCEPT ![g] = <<>>]
    /\ maskPaths' = [maskPaths EXCEPT ![g] = {}]
    /\ maskPathsMap' = [maskPathsMap EXCEPT ![g] = {}]
    /\ inputValue' = [inputValue EXCEPT ![g] = Nil]
    /\ maskedObject' = [maskedObject EXCEPT ![g] = Nil]
    /\ result' = [result EXCEPT ![g] = NoResult]
    /\ calls' = [calls EXCEPT ![g] = <<>>]
    /\ tested' = [tested EXCEPT ![g] = <<>>]
    /\ stdout' = [stdout EXCEPT ![g] = <<>>]
    /\ UNCHANGED masker

\* one caller, one call after another
Next ==
    \/ Call(1, Texts, RuleSets)
    \/ Decode(1)
    \/ Walk(1)
    \/ Encode(1)
    \/ Discard(1)

Spec == Init /\ [][Next]_vars

\* two goroutines calling Mask on the same masker
NextConc ==
    \/ \E g \in Goroutines : Call(g, ConcTexts, ConcRuleSets)
    \/ \E g \in Goroutines : Decode(g)
    \/ \E g \in Goroutines : Walk(g)
    \/ \E g \in Goroutines : Encode(g)
    \/ \E g \in Goroutines : Discard(g)

SpecConc == Init /\ [][NextConc]_vars

(***************************************************************************)
(* What the properties speak of.                                           *)
(***************************************************************************)
\* the document of g's call, as decoded from its input text
Doc(g) == Unmarshal(input[g]).v
\* g's call has returned a text and a nil error
ReturnedOk(g) == pc[g] = "returned" /\ result[g].err = "nil"
\* g is past the walk (tested and calls are final)
Walked(g) == pc[g] \in {"encode", "returned", "panicked"} /\ input[g] \notin BadTexts
\* the document returned, decoded again
OutDoc(g) == Unmarshal(result[g].out).v
Configured == maskFunc # "nil"
TheMasker == [maskFunc |-> maskFunc, isDebugMode |-> isDebugMode]

IsPrefix(p, q) == Len(p) <= Len(q) /\ SubSeq(q, 1, Len(p)) = p
StrictPrefix(p, q) == Len(p) < Len(q) /\ SubSeq(q, 1, Len(p)) = p

\* the node of v at the place pos
RECURSIVE SubtreeAt(_, _)
SubtreeAt(v, pos) ==
    IF pos = <<>> THEN v
    ELSE IF Head(pos).t = "key" THEN SubtreeAt(v.f[Head(pos).key], Tail(pos))
    ELSE SubtreeAt(v.e[Head(pos).idx + 1], Tail(pos))

\* the nodes of v whose collapsed traversal path is a rule, no ancestor's being one
RECURSIVE Matched(_, _, _, _)
Matched(v, rules, path, pos) ==
    IF ReplaceAllString(path) \in rules THEN {[path |-> path, pos |-> pos]}
    ELSE CASE v.k = "slice" ->
                UNION {Matched(v.e[i], rules, IndexPath(path, i - 1),
                               Append(pos, IdxStep(i - 1))) : i \in DOMAIN v.e}
           [] v.k = "map" ->
                UNION {Matched(v.f[key], rules, KeyPath(path, key),
                               Append(pos, KeyStep(key))) : key \in DOMAIN v.f}
           [] OTHER -> {}

\* v with every matched subtree hidden: what is left are the nodes no rule touches
Hidden == Str(<<"#">>)
RECURSIVE Frame(_, _, _)
Frame(v, rules, path) ==
    IF ReplaceAllString(path) \in rules THEN Hidden
    ELSE CASE v.k = "slice" ->
                Slice([i \in DOMAIN v.e |-> Frame(v.e[i], rules, IndexPath(path, i - 1))])
           [] v.k = "map" ->
                Map([key \in DOMAIN v.f |-> Frame(v.f[key], rules, KeyPath(path, key))])
           [] OTHER -> v

\* the places of the mask function's invocations
CallPlaces(g) == {[path |-> calls[g][i].path, pos |-> calls[g][i].pos] : i \in DOMAIN calls[g]}

(***************************************************************************)
(* C1.  A node is replaced by the mask function's output exactly when its  *)
(* traversal path, indices collapsed to [], is one of the rules and no     *)
(* ancestor was replaced: in every call that returns a text, with a mask   *)
(* function configured, the mask function was invoked at exactly the       *)
(* matched nodes of the document, and the output holds its result there.   *)
(***************************************************************************)
C1_ExactMatch ==
    (ReturnedOk(1) /\ Configured) =>
        /\ CallPlaces(1) = Matched(Doc(1), maskPaths[1], Root, <<>>)
        /\ \A i \in DOMAIN calls[1] :
              SubtreeAt(OutDoc(1), calls[1][i].pos) = Str(CallMaskFunc(TheMasker, calls[1][i].field))

(***************************************************************************)
(* C2.  Every node that is neither matched nor inside a matched subtree is *)
(* unchanged in the output: with the matched subtrees hidden, the returned *)
(* document equals the input document (same keys, same lengths and order,  *)
(* same leaves); with no rule the output decodes to the document itself.   *)
(***************************************************************************)
C2_Unchanged ==
    ReturnedOk(1) =>
        Frame(OutDoc(1), maskPaths[1], Root) = Frame(Doc(1), maskPaths[1], Root)

(***************************************************************************)
(* C3.  With a mask function configured, Mask on a valid JSON text (null   *)
(* at the root, in a field or in an array included) never panics and       *)
(* returns a nil error.                                                    *)
(***************************************************************************)
C3_WalkCannotFail ==
    (Configured /\ input[1] \notin BadTexts) =>
        /\ pc[1] # "panicked"
        /\ pc[1] = "returned" => result[1].err = "nil"

(***************************************************************************)
(* C4.  A node whose canonical path is a rule is replaced as a whole by    *)
(* one mask output: the mask function is invoked exactly once for it, on   *)
(* the subtree as decoded, nothing below it is tested against the rules,   *)
(* and a further rule for a path strictly below a rule of the set does not *)
(* change the output.                                                      *)
(***************************************************************************)
RuleBelow(r, rules) ==
    \E r0 \in rules : StrictPrefix(r0, r) /\ r[Len(r0) + 1] \in {".", "["}
C4_SubtreeSuppression ==
    (ReturnedOk(1) /\ Configured) =>
        /\ \A n \in Matched(Doc(1), maskPaths[1], Root, <<>>) :
              /\ Cardinality({i \in DOMAIN calls[1] : calls[1][i].pos = n.pos}) = 1
              /\ \A i \in DOMAIN calls[1] :
                    calls[1][i].pos = n.pos => calls[1][i].field = SubtreeAt(Doc(1), n.pos)
              /\ \A j \in DOMAIN tested[1] : ~StrictPrefix(n.pos, tested[1][j].pos)
        /\ \A r \in maskPaths[1] :
              RuleBelow(r, maskPaths[1]) =>
                  \E o \in maskWithPaths(TheMasker, ValueOf(Doc(1)), maskPaths[1] \ {r}, Root) :
                      ~o.panic /\ Marshal(o.val) = result[1].out

(***************************************************************************)
(* C5.  A masker constructed without a mask-function option masks with the *)
(* constant string "[REDACTED]": its calls do not panic, and every matched *)
(* node of the document is the string "[REDACTED]" in the output.          *)
(***************************************************************************)
C5_DefaultMask ==
    (maskFunc = "nil" /\ input[1] \notin BadTexts) =>
        /\ pc[1] # "panicked"
        /\ ReturnedOk(1) =>
              \A n \in Matched(Doc(1), maskPaths[1], Root, <<>>) :
                  SubtreeAt(OutDoc(1), n.pos) = Str(REDACTED)

(***************************************************************************)
(* C6.  On a text that is not valid JSON, Mask returns the decode error    *)
(* and the empty string and stops before any masking: the walk is not      *)
(* started (nothing tested, nothing logged) and the mask function is not   *)
(* invoked.  Whenever Mask returns an error, the string it returns is      *)
(* empty.                                                                  *)
(***************************************************************************)
C6_DecodeErrorStops ==
    \A g \in Goroutines :
        /\ (pc[g] # "idle" /\ input[g] \in BadTexts) =>
              /\ pc[g] \in {"decode", "returned"}
              /\ calls[g] = <<>> /\ tested[g] = <<>> /\ stdout[g] = <<>>
              /\ pc[g] = "returned" =>
                    result[g] = [out |-> <<>>, err |-> "failed to unmarshal input"]
        /\ (pc[g] = "returned" /\ result[g].err # "nil") => result[g].out = <<>>
\* a call on the text `invalid`, with rules, has returned
C6_Witness ==
    /\ pc[1] = "returned"
    /\ input[1] = <<Lit("word", <<"i", "n", "v", "a", "l", "i", "d">>)>>
    /\ maskPaths[1] # {}
    /\ result[1].err = "failed to unmarshal input"

(***************************************************************************)
(* C7 as stated, for the documents other than null.  With `$` or `$[]`     *)
(* among the rules (and a mask function configured), the output is the     *)
(* single value the mask function gives for the whole document, whatever   *)
(* the document is.                                                        *)
(***************************************************************************)
RootElems == Root \o <<"[", "]">>
C7_RootRuleMasksDocument ==
    (Configured /\ ReturnedOk(1) /\ Doc(1) # Nil
        /\ (Root \in maskPaths[1] \/ RootElems \in maskPaths[1])) =>
        OutDoc(1) = Str(CallMaskFunc(TheMasker, Doc(1)))

(***************************************************************************)
(* C7 amended.  With a mask function configured: rule `$` replaces every   *)
(* document other than null by one mask output (one invocation, on the     *)
(* whole decoded document).  Rule `$[]` without `$` does not mask the      *)
(* document as a whole: it replaces each element of a root array by the    *)
(* mask output for that element, and on a root that is not an array the    *)
(* mask function is invoked neither for the root nor for an element.  A    *)
(* null document is never masked: the walk returns before any rule is      *)
(* tested and no mask function is invoked.                                 *)
(***************************************************************************)
C7_RootRules ==
    (Configured /\ Walked(1)) =>
        LET doc == Doc(1)
            rules == maskPaths[1]
        IN  /\ (Root \in rules /\ doc # Nil) =>
                  /\ pc[1] # "panicked"
                  /\ calls[1] = <<[path |-> Root, field |-> doc, pos |-> <<>>]>>
                  /\ ReturnedOk(1) => OutDoc(1) = Str(CallMaskFunc(TheMasker, doc))
            /\ (RootElems \in rules /\ Root \notin rules /\ doc.k = "slice") =>
                  /\ pc[1] # "panicked"
                  /\ Len(calls[1]) = Len(doc.e)
                  /\ ReturnedOk(1) =>
                        OutDoc(1) = Slice([i \in DOMAIN doc.e |->
                                              Str(CallMaskFunc(TheMasker, doc.e[i]))])
            /\ (RootElems \in rules /\ Root \notin rules /\ doc.k # "slice") =>
                  \A i \in DOMAIN calls[1] :
                      /\ calls[1][i].pos # <<>>
                      /\ calls[1][i].pos[1].t = "key"
            /\ input[1] = Marshal(Nil) => calls[1] = <<>> /\ tested[1] = <<>>
\* rule `$[]` alone on a two-element array with a null element: the call has
\* returned an array of two mask outputs
C7_Witness ==
    /\ ReturnedOk(1)
    /\ maskFunc = "custom"
    /\ maskPaths[1] = {RootElems}
    /\ Doc(1) = Slice(<<One, Nil>>)
    /\ Len(calls[1]) = 2
    /\ OutDoc(1) = Slice(<<Str(<<"*", "1">>), Str(<<"*", "1">>)>>)

(***************************************************************************)
(* C8.  Calls of Mask on one masker, one after another or concurrently, do *)
(* not affect each other: a call returns (or panics) as it can when it     *)
(* runs alone on its own text and rules, its map of rules holds its own    *)
(* rules only, nothing of a call is left once it is over, and the masker's *)
(* fields are not written after construction.                              *)
(***************************************************************************)
\* what m.Mask(text, paths) can do when it runs alone
MaskAlone(text, paths) ==
    LET u == Unmarshal(text)
    IN  IF u.err
        THEN {[panic |-> FALSE, result |-> [out |-> <<>>, err |-> "failed to unmarshal input"],
               calls |-> <<>>]}
        ELSE {[panic |-> o.panic,
               result |-> IF o.panic THEN NoResult
                          ELSE [out |-> Marshal(o.val), err |-> "nil"],
               calls |-> o.calls]
              : o \in maskWithPaths(TheMasker, ValueOf(u.v), paths, Root)}
C8_CallsAreIsolated ==
    \A g \in Goroutines :
        /\ pc[g] = "returned" =>
              \E a \in MaskAlone(input[g], maskPaths[g]) :
                  ~a.panic /\ a.result = result[g] /\ a.calls = calls[g]
        /\ pc[g] = "panicked" =>
              \E a \in MaskAlone(input[g], maskPaths[g]) : a.panic /\ a.calls = calls[g]
        /\ pc[g] \in {"walk", "encode", "returned", "panicked"} =>
              maskPathsMap[g] = maskPaths[g]
        /\ pc[g] = "idle" =>
              /\ maskPathsMap[g] = {} /\ inputValue[g] = Nil /\ maskedObject[g] = Nil
              /\ result[g] = NoResult /\ calls[g] = <<>> /\ tested[g] = <<>>
C8_Isolation == []C8_CallsAreIsolated /\ [][masker' = masker]_vars
\* both goroutines have returned, from different texts and rules, one of them
\* masked and the other not
C8_Witness ==
    /\ ReturnedOk(1) /\ ReturnedOk(2)
    /\ input[1] # input[2]
    /\ maskPaths[1] = {} /\ maskPaths[2] # {}
    /\ calls[1] = <<>> /\ Len(calls[2]) = 2

(***************************************************************************)
(* C9 as stated.  The fields of an object are visited in the order they    *)
(* have in the text and the elements of an array in index order, each      *)
(* child wholly before the next: the mask function's invocations come in   *)
(* the depth-first pre-order of the document.  (The texts of Texts have    *)
(* their fields in sorted order, the order Marshal writes.)                *)
(***************************************************************************)
RECURSIVE Before(_, _)
Before(p, q) ==
    IF p = <<>> THEN q # <<>>
    ELSE IF q = <<>> THEN FALSE
    ELSE IF Head(p) = Head(q) THEN Before(Tail(p), Tail(q))
    ELSE IF Head(p).t = "idx" THEN Head(p).idx < Head(q).idx
    ELSE StrLess(Head(p).key, Head(q).key)
RECURSIVE CommonLen(_, _)
CommonLen(p, q) ==
    IF p = <<>> \/ q = <<>> \/ Head(p) # Head(q) THEN 0
    ELSE 1 + CommonLen(Tail(p), Tail(q))
\* t is a depth-first pre-order: no node after a node below it, array elements
\* in ascending order, and the nodes below any one node next to each other
PreOrderOfSomeFieldOrder(t) ==
    \A i, j \in DOMAIN t :
        i < j =>
            LET p == t[i].pos
                q == t[j].pos
                n == CommonLen(p, q)
            IN  /\ ~StrictPrefix(q, p)
                /\ (n < Len(p) /\ n < Len(q) /\ p[n + 1].t = "idx") =>
                      p[n + 1].idx < q[n + 1].idx
                /\ j < Len(t) => CommonLen(p, q) >= CommonLen(p, t[j + 1].pos)
RECURSIVE NameEnd(_, _)
NameEnd(r, i) ==
    IF i <= Len(r) /\ r[i] \notin {".", "["} THEN NameEnd(r, i + 1) ELSE i
\* the segments of rule r from position i on; a segment that is neither .name
\* nor [] (a literal index) stands for no step
RECURSIVE RuleSteps(_, _)
RuleSteps(r, i) ==
    IF i > Len(r) THEN <<>>
    ELSE IF r[i] = "." /\ NameEnd(r, i + 1) > i + 1
         THEN <<KeyStep(SubSeq(r, i + 1, NameEnd(r, i + 1) - 1))>>
              \o RuleSteps(r, NameEnd(r, i + 1))
    ELSE IF r[i] = "[" /\ i < Len(r) /\ r[i + 1] = "]"
         THEN <<IdxStep(0)>> \o RuleSteps(r, i + 2)
    ELSE <<[t |-> "none", key |-> <<>>, idx |-> 0]>>
Designates(r, pos) ==
    LET steps == RuleSteps(r, 2)
    IN  /\ Len(steps) = Len(pos)
        /\ \A i \in DOMAIN pos :
              /\ steps[i].t = pos[i].t
              /\ steps[i].key = pos[i].key
C10_StructuralMatch ==
    Walked(1) =>
        \A i \in DOMAIN calls[1] :
            \E r \in maskPaths[1] : Designates(r, calls[1][i].pos)

====
